---- MODULE Spec2Model ----
(***************************************************************************)
(* Model of Calcular_Salario.py: the payroll calculators (calcular_inss,   *)
(* calcular_insalubridade, calcular_vr, calcular_vt), the aggregator       *)
(* get_resultados_string, the formatting and validation helpers, and the   *)
(* form of gui_main with its handlers.                                     *)
(*                                                                         *)
(* The program computes with Python floats, i.e. IEEE-754 binary64 with    *)
(* round-to-nearest-even.  The model keeps that arithmetic: a float is a   *)
(* record [s, m, e] of value (-1)^s * m * 2^e whose significand m has      *)
(* exactly 53 bits (or is zero), and every operation rounds its exact      *)
(* result to 53 bits, ties to even.  Significands do not fit the integers  *)
(* of the model checker, so they are kept as little-endian sequences of    *)
(* limbs in base 2^14.  Infinities, NaN and subnormals are not modelled:   *)
(* all magnitudes that occur lie between 2^-60 and 2^60.                   *)
(***************************************************************************)
EXTENDS Integers, Sequences, FiniteSets, TLC

VARIABLES
    localidade,   \* the locale the start-up setlocale left the process with
    entrada,      \* the arguments of the request, by parameter name
    chamada,      \* the function that was called, "nenhuma" before the call
    retorno,      \* what it returned
    form,         \* the form: its StringVars, which percentage entries are
                  \* gridded, and the result area
    mensagem,     \* the text of the error box the last handler showed, "" if none
    evento,       \* the handler that ran last, "nenhum" before the first
    eventos       \* how many handlers have run

vars == << localidade, entrada, chamada, retorno, form, mensagem, evento, eventos >>

(***************************************************************************)
(* Natural numbers of arbitrary size (the significands and their products) *)
(***************************************************************************)
LimbBits == 7 * 2
Base == 2 ^ LimbBits

RECURSIVE BNorm(_)
\* drop the leading (most significant) zero limbs
BNorm(a) ==
    IF a = << >> THEN << >>
    ELSE IF a[Len(a)] = 0 THEN BNorm(SubSeq(a, 1, Len(a) - 1))
    ELSE a

RECURSIVE BFromNat(_)
BFromNat(n) ==
    IF n = 0 THEN << >> ELSE << n % Base >> \o BFromNat(n \div Base)

RECURSIVE BToNat(_)
\* only for values below 2^31
BToNat(a) ==
    IF a = << >> THEN 0 ELSE Head(a) + Base * BToNat(Tail(a))

RECURSIVE BCmpFrom(_, _, _)
BCmpFrom(a, b, i) ==
    IF i = 0 THEN 0
    ELSE IF a[i] < b[i] THEN -1
    ELSE IF a[i] > b[i] THEN 1
    ELSE BCmpFrom(a, b, i - 1)

\* -1, 0, 1 as a < b, a = b, a > b (both normalised)
BCmp(a, b) ==
    IF Len(a) < Len(b) THEN -1
    ELSE IF Len(a) > Len(b) THEN 1
    ELSE BCmpFrom(a, b, Len(a))

\* the lowest limb and the limbs above it
Limb0(a) == IF a = << >> THEN 0 ELSE Head(a)
Acima(a) == IF a = << >> THEN a ELSE Tail(a)

RECURSIVE BAddC(_, _, _)
BAddC(a, b, c) ==
    IF a = << >> /\ b = << >> THEN (IF c = 0 THEN << >> ELSE << c >>)
    ELSE << (Limb0(a) + Limb0(b) + c) % Base >>
         \o BAddC(Acima(a), Acima(b), (Limb0(a) + Limb0(b) + c) \div Base)

BAdd(a, b) == BAddC(a, b, 0)

RECURSIVE BSubC(_, _, _)
BSubC(a, b, c) ==
    IF a = << >> THEN << >>
    ELSE << (Head(a) - Limb0(b) - c + Base) % Base >>
         \o BSubC(Tail(a), Acima(b), IF Head(a) - Limb0(b) - c < 0 THEN 1 ELSE 0)

\* a - b for a >= b
BSub(a, b) == BNorm(BSubC(a, b, 0))

RECURSIVE BMulSmallC(_, _, _)
BMulSmallC(a, k, c) ==
    IF a = << >> THEN (IF c = 0 THEN << >> ELSE BFromNat(c))
    ELSE << (Head(a) * k + c) % Base >> \o BMulSmallC(Tail(a), k, (Head(a) * k + c) \div Base)

\* a * k for 0 <= k <= Base
BMulSmall(a, k) == IF k = 0 THEN << >> ELSE BMulSmallC(a, k, 0)

\* a * Base
BShlLimb(a) == IF a = << >> THEN << >> ELSE << 0 >> \o a

RECURSIVE BMul(_, _)
BMul(a, b) ==
    IF b = << >> \/ a = << >> THEN << >>
    ELSE BAdd(BMulSmall(a, Head(b)), BShlLimb(BMul(a, Tail(b))))

RECURSIVE Zeros(_)
Zeros(n) == IF n = 0 THEN << >> ELSE << 0 >> \o Zeros(n - 1)

\* a * 2^n
BShl(a, n) ==
    IF a = << >> THEN << >>
    ELSE Zeros(n \div LimbBits) \o BMulSmall(a, 2 ^ (n % LimbBits))

RECURSIVE BDivSmallFrom(_, _, _, _)
\* the limbs of a \div k for the limbs 1..i of a, r the remainder carried down
BDivSmallFrom(a, k, i, r) ==
    IF i = 0 THEN << >>
    ELSE BDivSmallFrom(a, k, i - 1, (r * Base + a[i]) % k) \o << (r * Base + a[i]) \div k >>

\* a without its n lowest limbs
BDropLimbs(a, n) == IF n >= Len(a) THEN << >> ELSE SubSeq(a, n + 1, Len(a))

\* a \div k for 0 < k <= Base
BDivSmall(a, k) == BNorm(BDivSmallFrom(a, k, Len(a), 0))

\* a \div 2^n
BShr(a, n) == BDivSmall(BDropLimbs(a, n \div LimbBits), 2 ^ (n % LimbBits))

RECURSIVE NatBitLen(_)
NatBitLen(n) == IF n = 0 THEN 0 ELSE 1 + NatBitLen(n \div 2)

\* number of bits of a (normalised)
BBitLen(a) ==
    IF a = << >> THEN 0
    ELSE (Len(a) - 1) * LimbBits + NatBitLen(a[Len(a)])

BOdd(a) == a /= << >> /\ Head(a) % 2 = 1

\* q or q + 1, as the discarded part compares to one half (c) and q is odd
BRoundUp(q, c) == IF c > 0 \/ (c = 0 /\ BOdd(q)) THEN BAdd(q, << 1 >>) ELSE q

BRoundFrom(a, n, q) == BRoundUp(q, BCmp(BSub(a, BShl(q, n)), BShl(<< 1 >>, n - 1)))

\* a / 2^n rounded to the nearest integer, ties to even (n > 0)
BRoundShr(a, n) == BRoundFrom(a, n, BShr(a, n))

DigitBits == LimbBits \div 2

RECURSIVE QuotDigit(_, _, _, _)
\* the largest k in lo..hi with k * d <= r, by bisection
QuotDigit(r, d, lo, hi) ==
    IF lo = hi THEN lo
    ELSE IF BCmp(BMulSmall(d, (lo + hi + 1) \div 2), r) <= 0
         THEN QuotDigit(r, d, (lo + hi + 1) \div 2, hi)
         ELSE QuotDigit(r, d, lo, (lo + hi + 1) \div 2 - 1)

\* the digit k in front of the n - 1 digits and the remainder of rest
BDivJoin(k, n, rest) ==
    << BAdd(BShl(BFromNat(k), DigitBits * (n - 1)), rest[1]), rest[2] >>

RECURSIVE BDivDigits(_, _, _)
RECURSIVE BDivDigit(_, _, _, _)

\* long division in base 2^DigitBits: the next n quotient digits of r / d
\* (r < d), as << quotient, remainder >>
BDivDigits(r, d, n) ==
    IF n = 0 THEN << << >>, r >>
    ELSE BDivDigit(BShl(r, DigitBits), d, n,
                   QuotDigit(BShl(r, DigitBits), d, 0, 2 ^ DigitBits - 1))

BDivDigit(r, d, n, k) == BDivJoin(k, n, BDivDigits(BSub(r, BMulSmall(d, k)), d, n - 1))

(***************************************************************************)
(* Python float: IEEE-754 binary64, round to nearest, ties to even         *)
(***************************************************************************)
Precision == 53

\* the significand q at exponent E, renormalised when rounding carried out
FCarry(s, q, E) ==
    IF BBitLen(q) > Precision
    THEN [s |-> s, m |-> BShr(q, 1), e |-> E + 1]
    ELSE [s |-> s, m |-> q, e |-> E]

\* M of L bits brought to Precision bits
FRoundLen(s, M, E, L) ==
    IF L <= Precision
    THEN [s |-> s, m |-> BShl(M, Precision - L), e |-> E - (Precision - L)]
    ELSE FCarry(s, BRoundShr(M, L - Precision), E + (L - Precision))

\* the float nearest to (-1)^s * M * 2^E
FRound(s, M, E) ==
    IF M = << >> THEN [s |-> s, m |-> << >>, e |-> 0]
    ELSE FRoundLen(s, M, E, BBitLen(M))

FIsZero(a) == a.m = << >>

\* float(n) for an int n
FromInt(n) == FRound(IF n < 0 THEN 1 ELSE 0, BFromNat(IF n < 0 THEN -n ELSE n), 0)

FNeg(a) == [a EXCEPT !.s = 1 - a.s]

\* comparison of magnitudes: -1, 0, 1
FMagCmp(a, b) ==
    IF FIsZero(a) THEN (IF FIsZero(b) THEN 0 ELSE -1)
    ELSE IF FIsZero(b) THEN 1
    ELSE IF a.e < b.e THEN -1
    ELSE IF a.e > b.e THEN 1
    ELSE BCmp(a.m, b.m)

\* comparison of values: -1, 0, 1 (-0.0 and 0.0 compare equal)
FCmp(a, b) ==
    IF FIsZero(a) /\ FIsZero(b) THEN 0
    ELSE IF a.s = 0 /\ b.s = 1 THEN 1
    ELSE IF a.s = 1 /\ b.s = 0 THEN -1
    ELSE IF a.s = 0 THEN FMagCmp(a, b)
    ELSE FMagCmp(b, a)

FEq(a, b) == FCmp(a, b) = 0
FLt(a, b) == FCmp(a, b) < 0
FLe(a, b) == FCmp(a, b) <= 0
FGt(a, b) == FCmp(a, b) > 0

\* a * b
FMul(a, b) == FRound((a.s + b.s) % 2, BMul(a.m, b.m), a.e + b.e)

\* the sum of the magnitudes A and B of signs sa and sb, c their comparison
FAddSigned(sa, sb, A, B, E, c) ==
    IF sa = sb THEN FRound(sa, BAdd(A, B), E)
    ELSE IF c = 0 THEN [s |-> 0, m |-> << >>, e |-> 0]
    ELSE IF c > 0 THEN FRound(sa, BSub(A, B), E)
    ELSE FRound(sb, BSub(B, A), E)

FAddAligned(sa, sb, A, B, E) == FAddSigned(sa, sb, A, B, E, BCmp(A, B))

\* a + b for a and b not zero, E the smaller exponent
FAddAt(a, b, E) == FAddAligned(a.s, b.s, BShl(a.m, a.e - E), BShl(b.m, b.e - E), E)

\* a + b
FAdd(a, b) ==
    IF FIsZero(a) /\ FIsZero(b)
    THEN [s |-> IF a.s = 1 /\ b.s = 1 THEN 1 ELSE 0, m |-> << >>, e |-> 0]
    ELSE IF FIsZero(a) THEN b
    ELSE IF FIsZero(b) THEN a
    ELSE FAddAt(a, b, IF a.e < b.e THEN a.e ELSE b.e)

\* a - b
FSub(a, b) == FAdd(a, FNeg(b))

QuotDigits == 8

\* the quotient digits qr = << q, remainder >> after the leading bit ge,
\* with a sticky bit for the remainder, rounded
FDivRound(s, E, ge, qr) ==
    FRound(s,
           BAdd(BShl(BAdd(IF ge THEN BShl(<< 1 >>, QuotDigits * DigitBits) ELSE << >>, qr[1]), 1),
                IF qr[2] = << >> THEN << >> ELSE << 1 >>),
           E - (QuotDigits * DigitBits + 1))

FDivFrom(a, b, ge) ==
    FDivRound((a.s + b.s) % 2, a.e - b.e, ge,
              BDivDigits(IF ge THEN BSub(a.m, b.m) ELSE a.m, b.m, QuotDigits))

\* a / b for b /= 0: the quotient of the significands to 57 bits and a
\* sticky bit for the remainder, then rounded
FDiv(a, b) ==
    IF FIsZero(a) THEN [s |-> (a.s + b.s) % 2, m |-> << >>, e |-> 0]
    ELSE FDivFrom(a, b, BCmp(a.m, b.m) >= 0)

\* a * 2^k, exact
FScale(a, k) == IF FIsZero(a) THEN a ELSE [a EXCEPT !.e = a.e + k]

FAbs(a) == [a EXCEPT !.s = 0]

\* the float a decimal literal or float("...") denotes: n / 10^k correctly
\* rounded (n and 10^k are themselves floats, and division rounds correctly)
Dec(n, k) == FDiv(FromInt(n), FromInt(10 ^ k))

\* the literals 0.0 and 100.0
Zero == FromInt(0)
Cem == FromInt(100)

(***************************************************************************)
(* Constants of the program                                                *)
(***************************************************************************)
SEPARATOR == "--------------------------------------------------------------------"

INSS_LIMITS == << Dec(151800, 2), Dec(279388, 2), Dec(419083, 2), Dec(815741, 2) >>
INSS_RATES == << Dec(75, 3), Dec(9, 2), Dec(12, 2), Dec(14, 2) >>

SALARIO_MINIMO == Dec(151800, 2)

(***************************************************************************)
(* Formatting                                                              *)
(***************************************************************************)
\* '%.2f' of abs(x): the exact value of |x| in hundredths, rounded to the
\* nearest integer, ties to even (values below 2^31 hundredths)
Centavos(x) ==
    IF FIsZero(x) THEN 0
    ELSE IF x.e >= 0 THEN BToNat(BShl(BMulSmall(x.m, 100), x.e))
    ELSE BToNat(BRoundShr(BMulSmall(x.m, 100), 0 - x.e))

\* texts are sequences of characters
Algarismos == << "0", "1", "2", "3", "4", "5", "6", "7", "8", "9" >>

RECURSIVE Digitos(_)
\* the decimal digits of a natural number
Digitos(n) ==
    IF n < 10 THEN << Algarismos[n + 1] >>
    ELSE Digitos(n \div 10) \o << Algarismos[(n % 10) + 1] >>

RECURSIVE Agrupa(_, _)
\* the digits ds with sep between the groups of three, counted from the right
Agrupa(ds, sep) ==
    IF Len(ds) <= 3 THEN ds
    ELSE Agrupa(SubSeq(ds, 1, Len(ds) - 3), sep) \o << sep >> \o SubSeq(ds, Len(ds) - 2, Len(ds))

\* '%.2f' of a number of hundredths c, grouped: the units with sep between
\* the thousands, the decimal point ponto, two decimals
DuasCasas(c, sep, ponto) ==
    Agrupa(Digitos(c \div 100), sep)
        \o << ponto, Algarismos[(c % 100) \div 10 + 1], Algarismos[(c % 10) + 1] >>

RECURSIVE Troca(_, _, _)
\* str.replace for one character (para is a text, possibly empty)
Troca(texto, de, para) ==
    IF texto = << >> THEN << >>
    ELSE (IF Head(texto) = de THEN para ELSE << Head(texto) >>) \o Troca(Tail(texto), de, para)

\* locale.currency(valor, symbol=False, grouping=True): abs(valor) with the
\* separators of the locale, and the sign in front when valor < 0
currency(valor, sep, ponto) ==
    (IF FLt(valor, Zero) THEN << "-" >> ELSE << >>) \o DuasCasas(Centavos(valor), sep, ponto)

\* f"{valor:,.2f}": the sign is the one of the float, so that -0.0 gives '-0.00'
formato_f(valor) ==
    (IF valor.s = 1 THEN << "-" >> ELSE << >>) \o DuasCasas(Centavos(valor), ",", ".")

\* formatar_valor: locale.currency with the separators of the locale the
\* process runs in; in the C locale locale.currency raises and the fallback
\* swaps the separators of f"{valor:,.2f}"
formatar_valor(valor) ==
    IF localidade = "C"
    THEN Troca(Troca(Troca(formato_f(valor), ",", << "X" >>), ".", << "," >>), "X", << "." >>)
    ELSE IF localidade = "pt_BR.UTF-8" THEN currency(valor, ".", ",")
    ELSE currency(valor, ",", ".")

\* what float() and int() raise for a text that is not a number
ValueError == [excecao |-> "ValueError"]

\* the value of a digit character, 10 for any other character
ValorDigito(c) ==
    IF \E i \in 1..Len(Algarismos) : Algarismos[i] = c
    THEN (CHOOSE i \in 1..Len(Algarismos) : Algarismos[i] = c) - 1
    ELSE 10

\* the text is made of digits only, and of one digit at least
SoDigitos(texto) ==
    texto /= << >> /\ \A i \in 1..Len(texto) : ValorDigito(texto[i]) < 10

RECURSIVE Numero(_, _)
\* the number a text of digits writes, after the digits already read (acc)
Numero(texto, acc) ==
    IF texto = << >> THEN acc
    ELSE Numero(Tail(texto), 10 * acc + ValorDigito(Head(texto)))

\* the number of characters after the first point, 0 without a point
CasasDecimais(texto) ==
    IF \E i \in 1..Len(texto) : texto[i] = "."
    THEN Len(texto) - (CHOOSE i \in 1..Len(texto) :
                           texto[i] = "." /\ \A j \in 1..(i - 1) : texto[j] /= ".")
    ELSE 0

\* the number of points of the text
Pontos(texto) == Cardinality({ i \in 1..Len(texto) : texto[i] = "." })

\* a text without sign that float converts: digits around at most one point
EhNumero(texto) == Pontos(texto) <= 1 /\ SoDigitos(Troca(texto, ".", << >>))

\* float(texto) converts the text, rather than raising ValueError
Converte(texto) ==
    IF texto /= << >> /\ Head(texto) = "-" THEN EhNumero(Tail(texto)) ELSE EhNumero(texto)

\* float(texto) for a text without sign
float_sem_sinal(texto) ==
    IF EhNumero(texto)
    THEN Dec(Numero(Troca(texto, ".", << >>), 0), CasasDecimais(texto))
    ELSE ValueError

\* -x, unless the evaluation of x raised
Menos(x) == IF x = ValueError THEN ValueError ELSE FNeg(x)

\* float(texto), for texts of digits, points, commas, signs and letters
float(texto) ==
    IF texto /= << >> /\ Head(texto) = "-" THEN Menos(float_sem_sinal(Tail(texto)))
    ELSE float_sem_sinal(texto)

\* limpar_formato: the float a text in the Brazilian format writes, 0.0 for
\* the empty text
limpar_formato(valor) ==
    IF valor = << >> THEN Zero
    ELSE float(Troca(Troca(valor, ".", << >>), ",", << "." >>))

(***************************************************************************)
(* Calculators                                                             *)
(***************************************************************************)
RECURSIVE inss_faixas_sem_avanco(_, _, _, _)
\* variant of the loop that never advances the lower bound
inss_faixas_sem_avanco(salario_bruto, i, lower, inss_total) ==
    IF i > Len(INSS_LIMITS) THEN inss_total
    ELSE IF FGt(salario_bruto, INSS_LIMITS[i])
         THEN inss_faixas_sem_avanco(salario_bruto, i + 1, lower,
              FAdd(inss_total, FMul(FSub(INSS_LIMITS[i], lower), INSS_RATES[i])))
         ELSE FAdd(inss_total, FMul(FSub(salario_bruto, lower), INSS_RATES[i]))

RECURSIVE inss_faixas_so_parcial(_, _, _, _)
\* variant of the loop whose marginal bracket returns its own part only
inss_faixas_so_parcial(salario_bruto, i, lower, inss_total) ==
    IF i > Len(INSS_LIMITS) THEN inss_total
    ELSE IF FGt(salario_bruto, INSS_LIMITS[i])
         THEN inss_faixas_so_parcial(salario_bruto, i + 1, INSS_LIMITS[i],
              FAdd(inss_total, FMul(FSub(INSS_LIMITS[i], lower), INSS_RATES[i])))
         ELSE FMul(FSub(salario_bruto, lower), INSS_RATES[i])

RECURSIVE inss_faixas_sem_teto(_, _, _, _)
\* variant of the loop that charges the last rate above the last limit
inss_faixas_sem_teto(salario_bruto, i, lower, inss_total) ==
    IF i > Len(INSS_LIMITS)
    THEN FAdd(inss_total, FMul(FSub(salario_bruto, lower), INSS_RATES[Len(INSS_RATES)]))
    ELSE IF FGt(salario_bruto, INSS_LIMITS[i])
         THEN inss_faixas_sem_teto(salario_bruto, i + 1, INSS_LIMITS[i],
              FAdd(inss_total, FMul(FSub(INSS_LIMITS[i], lower), INSS_RATES[i])))
         ELSE FAdd(inss_total, FMul(FSub(salario_bruto, lower), INSS_RATES[i]))

RECURSIVE inss_faixas(_, _, _, _)
\* the for loop of calcular_inss from bracket i on
inss_faixas(salario_bruto, i, lower, inss_total) ==
    IF i > Len(INSS_LIMITS) THEN inss_total
    ELSE IF FGt(salario_bruto, INSS_LIMITS[i])
         THEN inss_faixas(salario_bruto, i + 1, INSS_LIMITS[i],
              FAdd(inss_total, FMul(FSub(INSS_LIMITS[i], lower), INSS_RATES[i])))
         ELSE FAdd(inss_total, FMul(FSub(salario_bruto, lower), INSS_RATES[i]))

calcular_inss(salario_bruto) ==
    IF FLe(salario_bruto, Zero) THEN Zero
    ELSE inss_faixas(salario_bruto, 1, Zero, Zero)

\* << insal_total, parcela_40, parcela_60 >>
parcelas(insal_total) ==
    << insal_total, FMul(insal_total, Dec(40, 2)), FMul(insal_total, Dec(60, 2)) >>

\* variant that computes the second part with the factor of the first
calcular_insalubridade_parcela_repetida(percentual) ==
    IF FLe(percentual, Zero) THEN << Zero, Zero, Zero >>
    ELSE << FMul(SALARIO_MINIMO, FDiv(percentual, Cem)),
            FMul(FMul(SALARIO_MINIMO, FDiv(percentual, Cem)), Dec(40, 2)),
            FMul(FMul(SALARIO_MINIMO, FDiv(percentual, Cem)), Dec(40, 2)) >>

calcular_insalubridade(percentual) ==
    IF FLe(percentual, Zero) THEN << Zero, Zero, Zero >>
    ELSE parcelas(FMul(SALARIO_MINIMO, FDiv(percentual, Cem)))

\* variant that does not test the number of days
calcular_vr_sem_dias(valor_vr, dias_vr, percentual_desconto) ==
    IF FGt(percentual_desconto, Zero) /\ FGt(valor_vr, Zero)
    THEN FMul(FMul(valor_vr, FromInt(dias_vr)), FDiv(percentual_desconto, Cem))
    ELSE Zero

\* dias_vr is an int; the product converts it to float
calcular_vr(valor_vr, dias_vr, percentual_desconto) ==
    IF FGt(percentual_desconto, Zero) /\ FGt(valor_vr, Zero) /\ dias_vr > 0
    THEN FMul(FMul(valor_vr, FromInt(dias_vr)), FDiv(percentual_desconto, Cem))
    ELSE Zero

\* variant that does not test the base amount
calcular_vt_sem_base(salario_bruto, percentual_desconto) ==
    IF FGt(percentual_desconto, Zero)
    THEN FMul(salario_bruto, FDiv(percentual_desconto, Cem))
    ELSE Zero

calcular_vt(salario_bruto, percentual_desconto) ==
    IF FGt(percentual_desconto, Zero) /\ FGt(salario_bruto, Zero)
    THEN FMul(salario_bruto, FDiv(percentual_desconto, Cem))
    ELSE Zero

(***************************************************************************)
(* The aggregator                                                          *)
(***************************************************************************)
SemValor == << >>

\* one element of linhas: a line with a formatted amount ("valor"), a
\* notice without amount ("aviso") or the separator; perc is the number
\* printed between parentheses and dias the day count, where the line has one
Linha(tipo, rotulo, perc, dias, valor) ==
    [tipo |-> tipo, rotulo |-> rotulo, perc |-> perc, dias |-> dias, valor |-> valor]

LinhaSeparador == Linha("separador", SEPARATOR, Zero, 0, SemValor)

\* variant that prints the amount for a percentage of zero as well
LinhaDesconto_sem_aviso(nome, percentual, desconto) ==
    IF FGt(percentual, Zero) \/ FEq(percentual, Zero)
    THEN Linha("valor", "Valor Desconto " \o nome, percentual, 0, formatar_valor(desconto))
    ELSE Linha("aviso", "Sem desconto de " \o nome, Zero, 0, SemValor)

\* the if/else that appends the line of one discount category
LinhaDesconto(nome, percentual, desconto) ==
    IF FGt(percentual, Zero)
    THEN Linha("valor", "Valor Desconto " \o nome, percentual, 0, formatar_valor(desconto))
    ELSE Linha("aviso", "Sem desconto de " \o nome, Zero, 0, SemValor)

\* variant that takes the dental plan's discount with the health plan's percentage
calcula_descontos_cruzado(salario_bruto, valor_vr, dias_vr, desconto_vr_percentual, desconto_vt_percentual, desconto_saude_percentual, desconto_odonto_percentual) ==
    [vr |-> calcular_vr(valor_vr, dias_vr, desconto_vr_percentual),
     vt |-> calcular_vt(salario_bruto, desconto_vt_percentual),
     saude |-> calcular_vt(salario_bruto, desconto_saude_percentual),
     odonto |-> calcular_vt(salario_bruto, desconto_saude_percentual)]

\* variant that takes the plans' discounts on the salary after INSS
calcula_descontos_base_liquida(salario_bruto, valor_vr, dias_vr, desconto_vr_percentual, desconto_vt_percentual, desconto_saude_percentual, desconto_odonto_percentual) ==
    [vr |-> calcular_vr(valor_vr, dias_vr, desconto_vr_percentual),
     vt |-> calcular_vt(salario_bruto, desconto_vt_percentual),
     saude |-> calcular_vt(FSub(salario_bruto, calcular_inss(salario_bruto)),
                           desconto_saude_percentual),
     odonto |-> calcular_vt(FSub(salario_bruto, calcular_inss(salario_bruto)),
                            desconto_odonto_percentual)]

\* the four discounts of the aggregator
calcula_descontos(salario_bruto, valor_vr, dias_vr, desconto_vr_percentual, desconto_vt_percentual, desconto_saude_percentual, desconto_odonto_percentual) ==
    [vr |-> calcular_vr(valor_vr, dias_vr, desconto_vr_percentual),
     vt |-> calcular_vt(salario_bruto, desconto_vt_percentual),
     saude |-> calcular_vt(salario_bruto, desconto_saude_percentual),
     odonto |-> calcular_vt(salario_bruto, desconto_odonto_percentual)]

\* variant that leaves the insalubridade out of the net salary
calcula_salario_liquido_sem_insal(salario_bruto, desconto_inss, desconto_vr, desconto_vt, desconto_saude, desconto_odonto, insal_total) ==
    FSub(FSub(FSub(FSub(FSub(salario_bruto, desconto_inss), desconto_vr),
                   desconto_vt), desconto_saude), desconto_odonto)

\* the net salary, subtracted and added from left to right
calcula_salario_liquido(salario_bruto, desconto_inss, desconto_vr, desconto_vt, desconto_saude, desconto_odonto, insal_total) ==
    FAdd(FSub(FSub(FSub(FSub(FSub(salario_bruto, desconto_inss), desconto_vr),
                        desconto_vt), desconto_saude), desconto_odonto),
         insal_total)

\* the total of the discounts, added from left to right
calcula_total_descontos(desconto_inss, desconto_vr, desconto_vt, desconto_saude, desconto_odonto) ==
    FAdd(FAdd(FAdd(FAdd(desconto_inss, desconto_vr), desconto_vt), desconto_saude),
         desconto_odonto)

\* the advance on the salary
calcula_adiantamento(adiantamento_salario, salario_bruto) ==
    FMul(FDiv(adiantamento_salario, Cem), salario_bruto)

\* what a division by zero raises
ZeroDivisionError == [excecao |-> "ZeroDivisionError"]

\* a / b of two floats: raises when b is zero
Dividir(a, b) == IF FIsZero(b) THEN ZeroDivisionError ELSE FDiv(a, b)

\* a * b, unless the evaluation of a raised
Vezes(a, b) == IF a = ZeroDivisionError THEN ZeroDivisionError ELSE FMul(a, b)

\* variant that computes the rate without looking at the salary
calcula_percentual_inss_sem_guarda(desconto_inss, salario_bruto) ==
    Vezes(Dividir(desconto_inss, salario_bruto), Cem)

\* the effective rate printed on the INSS line
calcula_percentual_inss(desconto_inss, salario_bruto) ==
    IF FGt(salario_bruto, Zero)
    THEN Vezes(Dividir(desconto_inss, salario_bruto), Cem)
    ELSE Zero

\* linhas, in the order of the appends
monta_linhas(salario_bruto, adiantamento_salario, valor_vr, dias_vr, desconto_vr_percentual, desconto_vt_percentual, desconto_saude_percentual, desconto_odonto_percentual, desconto_inss, insal, descontos, adiantamento_40, salario_liquido, percentual_inss, total_descontos) ==
    << Linha("valor", "Salário Bruto", Zero, 0, formatar_valor(salario_bruto)),
       Linha("valor", "Valor Adiantamento Salário", adiantamento_salario, 0,
             formatar_valor(adiantamento_40)),
       Linha("valor", "Valor VR", Zero, dias_vr,
             formatar_valor(FMul(valor_vr, FromInt(dias_vr)))),
       Linha("valor", "Valor Adiantamento Insalubridade", Zero, 0, formatar_valor(insal[2])),
       Linha("valor", "Valor Final Insalubridade", Zero, 0, formatar_valor(insal[3])),
       Linha("valor", "Valor Adiantamento Insalubridade (40%) + Valor Adiantamento Salário",
             adiantamento_salario, 0, formatar_valor(FAdd(adiantamento_40, insal[2]))),
       LinhaSeparador,
       Linha("valor", "Valor Desconto INSS", percentual_inss, 0, formatar_valor(desconto_inss)),
       LinhaDesconto("VR", desconto_vr_percentual, descontos.vr),
       LinhaDesconto("VT", desconto_vt_percentual, descontos.vt),
       LinhaDesconto("Plano de Saúde", desconto_saude_percentual, descontos.saude),
       LinhaDesconto("Plano Odontológico", desconto_odonto_percentual, descontos.odonto),
       Linha("valor", "Valor Total Desconto (INSS + VR + VT + Saúde + Odontológico)",
             Zero, 0, formatar_valor(total_descontos)),
       LinhaSeparador,
       Linha("valor", "Total de Proventos", Zero, 0,
             formatar_valor(FAdd(salario_bruto, insal[1]))),
       Linha("valor", "Total Insalubridade", Zero, 0, formatar_valor(insal[1])),
       LinhaSeparador,
       Linha("valor", "Salário Líquido", Zero, 0, formatar_valor(salario_liquido)),
       LinhaSeparador >>

\* the values computed and the lines of the returned text, or the exception
\* that left the function
monta_resultados(salario_bruto, adiantamento_salario, valor_vr, dias_vr, desconto_vr_percentual, desconto_vt_percentual, desconto_saude_percentual, desconto_odonto_percentual, desconto_inss, insal, descontos, adiantamento_40, salario_liquido, percentual_inss, total_descontos) ==
    IF percentual_inss = ZeroDivisionError THEN ZeroDivisionError
    ELSE
    [desconto_inss |-> desconto_inss,
     insal_total |-> insal[1],
     parcela_40 |-> insal[2],
     parcela_60 |-> insal[3],
     desconto_vr |-> descontos.vr,
     desconto_vt |-> descontos.vt,
     desconto_saude |-> descontos.saude,
     desconto_odonto |-> descontos.odonto,
     adiantamento_40 |-> adiantamento_40,
     salario_liquido |-> salario_liquido,
     percentual_inss |-> percentual_inss,
     total_descontos |-> total_descontos,
     linhas |-> monta_linhas(salario_bruto, adiantamento_salario, valor_vr, dias_vr,
                             desconto_vr_percentual, desconto_vt_percentual,
                             desconto_saude_percentual, desconto_odonto_percentual,
                             desconto_inss, insal, descontos, adiantamento_40,
                             salario_liquido, percentual_inss, total_descontos)]

\* variant that takes the advance off the net salary
calcula_resultados_desconta_adiantamento(salario_bruto, adiantamento_salario, valor_vr, dias_vr, desconto_vr_percentual, desconto_vt_percentual, desconto_saude_percentual, desconto_odonto_percentual, desconto_inss, insal, descontos) ==
    monta_resultados(salario_bruto, adiantamento_salario, valor_vr, dias_vr,
                     desconto_vr_percentual, desconto_vt_percentual,
                     desconto_saude_percentual, desconto_odonto_percentual,
                     desconto_inss, insal, descontos,
                     calcula_adiantamento(adiantamento_salario, salario_bruto),
                     FSub(calcula_salario_liquido(salario_bruto, desconto_inss, descontos.vr,
                                                  descontos.vt, descontos.saude,
                                                  descontos.odonto, insal[1]),
                          calcula_adiantamento(adiantamento_salario, salario_bruto)),
                     calcula_percentual_inss(desconto_inss, salario_bruto),
                     calcula_total_descontos(desconto_inss, descontos.vr, descontos.vt,
                                             descontos.saude, descontos.odonto))

\* the body of get_resultados_string once INSS, insalubridade and the four
\* discounts are computed
calcula_resultados(salario_bruto, adiantamento_salario, valor_vr, dias_vr, desconto_vr_percentual, desconto_vt_percentual, desconto_saude_percentual, desconto_odonto_percentual, desconto_inss, insal, descontos) ==
    monta_resultados(salario_bruto, adiantamento_salario, valor_vr, dias_vr,
                     desconto_vr_percentual, desconto_vt_percentual,
                     desconto_saude_percentual, desconto_odonto_percentual,
                     desconto_inss, insal, descontos,
                     calcula_adiantamento(adiantamento_salario, salario_bruto),
                     calcula_salario_liquido(salario_bruto, desconto_inss, descontos.vr,
                                             descontos.vt, descontos.saude,
                                             descontos.odonto, insal[1]),
                     calcula_percentual_inss(desconto_inss, salario_bruto),
                     calcula_total_descontos(desconto_inss, descontos.vr, descontos.vt,
                                             descontos.saude, descontos.odonto))

get_resultados_string(salario_bruto, adiantamento_salario, insalubridade_percentual, valor_vr, dias_vr, desconto_vr_percentual, desconto_vt_percentual, desconto_saude_percentual, desconto_odonto_percentual) ==
    calcula_resultados(salario_bruto, adiantamento_salario, valor_vr, dias_vr,
                       desconto_vr_percentual, desconto_vt_percentual,
                       desconto_saude_percentual, desconto_odonto_percentual,
                       calcular_inss(salario_bruto),
                       calcular_insalubridade(insalubridade_percentual),
                       calcula_descontos(salario_bruto, valor_vr, dias_vr,
                                         desconto_vr_percentual, desconto_vt_percentual,
                                         desconto_saude_percentual,
                                         desconto_odonto_percentual))

(***************************************************************************)
(* Validation of the day count                                             *)
(***************************************************************************)
\* what calendar.monthrange raises for a month outside 1..12
IllegalMonthError == [excecao |-> "IllegalMonthError"]

\* a value a function returned (against an exception that left it)
Devolve(v) == [valor |-> v]

\* calendar.isleap
isleap(year) == year % 4 = 0 /\ (year % 100 /= 0 \/ year % 400 = 0)

\* calendar.mdays, from January on
mdays == << 31, 28, 31, 30, 31, 30, 31, 31, 30, 31, 30, 31 >>

\* calendar.monthrange(year, month)[1]
monthrange(year, month) ==
    IF month < 1 \/ month > 12 THEN IllegalMonthError
    ELSE Devolve(mdays[month] + (IF month = 2 /\ isleap(year) THEN 1 ELSE 0))

\* 0 <= dias_trab_mes <= dias_no_mes, unless monthrange raised
dias_no_intervalo(dias_trab_mes, dias_no_mes) ==
    IF dias_no_mes = IllegalMonthError THEN IllegalMonthError
    ELSE Devolve(0 <= dias_trab_mes /\ dias_trab_mes <= dias_no_mes.valor)

\* variant that asks the calendar without testing the month first
verificar_dias_validos_sem_mes(ano, mes, dias_trab_mes) ==
    dias_no_intervalo(dias_trab_mes, monthrange(ano, mes))

verificar_dias_validos(ano, mes, dias_trab_mes) ==
    IF mes < 1 \/ mes > 12 THEN Devolve(FALSE)
    ELSE dias_no_intervalo(dias_trab_mes, monthrange(ano, mes))

(***************************************************************************)
(* Requests: the arguments are drawn when the request is made, then one of *)
(* the functions is applied to them                                        *)
(***************************************************************************)
MaxPercentual == 30
MaxPassos == 18
MaxDias == 2

\* amounts are written in hundredths: Reais(151800) is float("1518.00")
Reais(c) == Dec(c, 2)

\* gross salaries: below, at and above every bracket limit, and a grid
SalariosFaixas ==
    { -500, 0, 1, 100020, 151799, 151800, 151801, 279387, 279388, 279389,
      300000, 300001, 419082, 419083, 419084, 815740, 815741, 815742,
      2000000, 100000055 }
SalariosGrade == { 50000 * k : k \in 1..MaxPassos }
Salarios == SalariosFaixas \cup SalariosGrade

Percentuais == { 100 * p : p \in (0 - 1)..MaxPercentual } \cup { 1250, 3333, 5700, 10000 }

DiasVr == { -1, 0, 22 } \cup 1..(MaxDias - 1)

Padrao ==
    [salario_bruto |-> Reais(300000), adiantamento_salario |-> Zero,
     insalubridade_percentual |-> Zero, valor_vr |-> Zero, dias_vr |-> 0,
     desconto_vr_percentual |-> Zero, desconto_vt_percentual |-> Zero,
     desconto_saude_percentual |-> Zero, desconto_odonto_percentual |-> Zero,
     ano |-> 2025, mes |-> 1, dias_trab_mes |-> 30]

EntradasInss == { [Padrao EXCEPT !.salario_bruto = Reais(c)] : c \in Salarios }

EntradasInsalubridade ==
    { [Padrao EXCEPT !.insalubridade_percentual = Reais(p)] : p \in Percentuais }

EntradasVr ==
    { [Padrao EXCEPT !.valor_vr = Reais(v), !.dias_vr = d, !.desconto_vr_percentual = Reais(p)] :
        v \in { -100, 0, 2000, 3550 }, d \in DiasVr, p \in { -500, 0, 600, 5000 } }

EntradasVt ==
    { [Padrao EXCEPT !.salario_bruto = Reais(c), !.desconto_vt_percentual = Reais(p)] :
        c \in { -500, 0, 100000, 100020 }, p \in { -500, 0, 600, 1000, 3333 } }

EntradasFolha ==
    { [salario_bruto |-> Reais(c), adiantamento_salario |-> Reais(a),
       insalubridade_percentual |-> Reais(i), valor_vr |-> Reais(v[1]), dias_vr |-> v[2],
       desconto_vr_percentual |-> Reais(pvr), desconto_vt_percentual |-> Reais(pvt),
       desconto_saude_percentual |-> Reais(ps), desconto_odonto_percentual |-> Reais(po),
       ano |-> 2025, mes |-> 1, dias_trab_mes |-> 30] :
        c \in { -500, 0, 100020, 300000 }, a \in { 0, 4000 }, i \in { 0, 2000 },
        v \in { << 0, 0 >>, << 2000, 22 >> },
        pvr \in { 0, 5000 }, pvt \in { 0, 600 }, ps \in { 0, 1000 }, po \in { 0, 250 } }

EntradasPlanos ==
    { [Padrao EXCEPT !.salario_bruto = Reais(c), !.desconto_saude_percentual = Reais(ps),
                     !.desconto_odonto_percentual = Reais(po)] :
        c \in { 100020, 300000 }, ps \in { -500, 0, 1000 }, po \in { -500, 0, 250 } }

\* years that are and are not leap years, centuries included; months and day
\* counts around the limits
EntradasDias ==
    { [Padrao EXCEPT !.ano = a, !.mes = m, !.dias_trab_mes = d] :
        a \in { 1900, 2000, 2023, 2024, 2025, 2100 },
        m \in { 0 - 1, 0, 1, 2, 4, 12, 13 },
        d \in { 0 - 1, 0, 1, 28, 29, 30, 31, 32 } }

Entradas ==
    EntradasInss \cup EntradasInsalubridade \cup EntradasVr \cup EntradasVt
        \cup EntradasPlanos \cup EntradasFolha \cup EntradasDias

(***************************************************************************)
(* The form of gui_main                                                    *)
(***************************************************************************)
\* the form as gui_main builds it: every StringVar empty, the four selectors
\* on "N", the four percentage entries removed from the grid, the result
\* area empty and disabled
FormInicial ==
    [salario_bruto_var |-> << >>, adiantamento_var |-> << >>, ano_var |-> << >>,
     mes_var |-> << >>, dias_mes_var |-> << >>, insal_var |-> << >>,
     valor_vr_var |-> << >>, dias_vr_var |-> << >>,
     tem_desconto_vr_var |-> "N", desconto_vr_perc_var |-> << >>,
     tem_desconto_vt_var |-> "N", desconto_vt_perc_var |-> << >>,
     tem_desconto_saude_var |-> "N", desconto_saude_perc_var |-> << >>,
     tem_desconto_odonto_var |-> "N", desconto_odonto_perc_var |-> << >>,
     ent_vr_perc |-> FALSE, ent_vt_perc |-> FALSE, ent_saude_perc |-> FALSE,
     ent_odonto_perc |-> FALSE,
     result_text |-> [texto |-> << >>, state |-> "disabled"]]

\* the form as built, before any handler has run
FormularioParado ==
    /\ form = FormInicial
    /\ mensagem = ""
    /\ evento = "nenhum"
    /\ eventos = 0

\* the locale the process runs in: pt_BR.UTF-8, or the one of the environment
\* when pt_BR.UTF-8 is not installed (here the C locale or en_US.UTF-8), in
\* which the requests that show the formatting are made as well
Init ==
    /\ \/ localidade = "pt_BR.UTF-8" /\ entrada \in Entradas
       \/ localidade = "C" /\ entrada \in EntradasInss \cup EntradasVt \cup EntradasPlanos
       \/ localidade = "en_US.UTF-8" /\ entrada \in EntradasInss
    /\ chamada = "nenhuma"
    /\ retorno = Zero
    /\ FormularioParado

Retorna(funcao, valor) ==
    /\ chamada = "nenhuma"
    /\ chamada' = funcao
    /\ retorno' = valor
    /\ UNCHANGED << localidade, entrada, form, mensagem, evento, eventos >>

Chama_calcular_inss ==
    Retorna("calcular_inss", calcular_inss(entrada.salario_bruto))

Chama_calcular_insalubridade ==
    Retorna("calcular_insalubridade", calcular_insalubridade(entrada.insalubridade_percentual))

Chama_calcular_vr ==
    Retorna("calcular_vr",
            calcular_vr(entrada.valor_vr, entrada.dias_vr, entrada.desconto_vr_percentual))

Chama_calcular_vt ==
    Retorna("calcular_vt", calcular_vt(entrada.salario_bruto, entrada.desconto_vt_percentual))

Chama_verificar_dias_validos ==
    Retorna("verificar_dias_validos",
            verificar_dias_validos(entrada.ano, entrada.mes, entrada.dias_trab_mes))

Chama_formatar_valor ==
    Retorna("formatar_valor", formatar_valor(entrada.salario_bruto))

\* the text formatar_valor returned is parsed back
Chama_limpar_formato ==
    /\ chamada = "formatar_valor"
    /\ chamada' = "limpar_formato"
    /\ retorno' = limpar_formato(retorno)
    /\ UNCHANGED << localidade, entrada, form, mensagem, evento, eventos >>

Folha(e) ==
    get_resultados_string(e.salario_bruto, e.adiantamento_salario, e.insalubridade_percentual,
                          e.valor_vr, e.dias_vr, e.desconto_vr_percentual,
                          e.desconto_vt_percentual, e.desconto_saude_percentual,
                          e.desconto_odonto_percentual)

Chama_get_resultados_string ==
    Retorna("get_resultados_string", Folha(entrada))

Next ==
    \/ Chama_calcular_inss
    \/ Chama_calcular_insalubridade
    \/ Chama_calcular_vr
    \/ Chama_calcular_vt
    \/ Chama_get_resultados_string
    \/ Chama_verificar_dias_validos
    \/ Chama_formatar_valor
    \/ Chama_limpar_formato

Spec == Init /\ [][Next]_vars

(***************************************************************************)
(* The handlers of the form                                                *)
(***************************************************************************)
\* int(texto), for texts of digits, signs and letters
int(texto) ==
    IF SoDigitos(texto) THEN Devolve(Numero(texto, 0))
    ELSE IF texto /= << >> /\ Head(texto) = "-" /\ SoDigitos(Tail(texto))
         THEN Devolve(0 - Numero(Tail(texto), 0))
         ELSE ValueError

\* int(texto or 0)
int_ou_zero(texto) == IF texto = << >> THEN Devolve(0) ELSE int(texto)

\* the digits of a text, in order
SoOsDigitos(texto) == SelectSeq(texto, LAMBDA c : ValorDigito(c) < 10)

\* validate_digits: the proposed content is empty or digits only
validate_digits(P) == P = << >> \/ SoDigitos(P)

\* format_money_input: the content the widget has now is empty once cleaned,
\* or converts to a float
format_money_input(current_value) ==
    \/ Troca(Troca(current_value, ".", << >>), ",", << "." >>) = << >>
    \/ Converte(Troca(Troca(current_value, ".", << >>), ",", << "." >>))

\* on_key_release_monetary: the digits of the variable, taken as centavos,
\* are written back formatted; a variable without digits is left alone
on_key_release_monetary(f, var) ==
    IF SoOsDigitos(f[var]) = << >> THEN f
    ELSE [f EXCEPT ![var] = formatar_valor(Dec(Numero(SoOsDigitos(f[var]), 0), 2))]

\* what a handler leaves: the form and the error box it showed
Fica(f, msg) == [form |-> f, mensagem |-> msg]

\* the percentage a text of validate_percent writes is above 100
AcimaDeCem(percent) == percent /= ValueError /\ FGt(percent, Cem)

\* validate_percent: a variable that holds a number above 100 is emptied
\* under an error box; any other content is left alone
validate_percent(f, sv) ==
    IF f[sv] /= << >>
       /\ AcimaDeCem(float(Troca(Troca(f[sv], ".", << >>), ",", << "." >>)))
    THEN Fica([f EXCEPT ![sv] = << >>],
              "Esse valor é um valor cheio. Insira o percentual: Ex: 10")
    ELSE Fica(f, "")

\* toggle_vr without the emptying of the percentage
toggle_vr_sem_limpar(f) ==
    IF f.tem_desconto_vr_var = "S" THEN [f EXCEPT !.ent_vr_perc = TRUE]
    ELSE [f EXCEPT !.ent_vr_perc = FALSE]

\* toggle_vr: on "S" the percentage entry is gridded; otherwise it is
\* removed from the grid and its variable emptied
toggle_vr(f) ==
    IF f.tem_desconto_vr_var = "S" THEN [f EXCEPT !.ent_vr_perc = TRUE]
    ELSE [f EXCEPT !.ent_vr_perc = FALSE, !.desconto_vr_perc_var = << >>]

toggle_vt(f) ==
    IF f.tem_desconto_vt_var = "S" THEN [f EXCEPT !.ent_vt_perc = TRUE]
    ELSE [f EXCEPT !.ent_vt_perc = FALSE, !.desconto_vt_perc_var = << >>]

toggle_saude(f) ==
    IF f.tem_desconto_saude_var = "S" THEN [f EXCEPT !.ent_saude_perc = TRUE]
    ELSE [f EXCEPT !.ent_saude_perc = FALSE, !.desconto_saude_perc_var = << >>]

toggle_odonto(f) ==
    IF f.tem_desconto_odonto_var = "S" THEN [f EXCEPT !.ent_odonto_perc = TRUE]
    ELSE [f EXCEPT !.ent_odonto_perc = FALSE, !.desconto_odonto_perc_var = << >>]

\* the selector, the percentage variable and the percentage entry of each
\* discount, in the order of Categorias
Seletores ==
    << [tem |-> "tem_desconto_vr_var", perc |-> "desconto_vr_perc_var",
        ent |-> "ent_vr_perc"],
       [tem |-> "tem_desconto_vt_var", perc |-> "desconto_vt_perc_var",
        ent |-> "ent_vt_perc"],
       [tem |-> "tem_desconto_saude_var", perc |-> "desconto_saude_perc_var",
        ent |-> "ent_saude_perc"],
       [tem |-> "tem_desconto_odonto_var", perc |-> "desconto_odonto_perc_var",
        ent |-> "ent_odonto_perc"] >>

\* the write trace of selector k: its toggle
trace_w(f, k) ==
    CASE k = 1 -> toggle_vr(f)
      [] k = 2 -> toggle_vt(f)
      [] k = 3 -> toggle_saude(f)
      [] k = 4 -> toggle_odonto(f)

\* selector k is set to valor, and its write trace runs
define_seletor(f, k, valor) == trace_w([f EXCEPT ![Seletores[k].tem] = valor], k)

\* the eight variables calcular requires at least one of
required_vars ==
    { "salario_bruto_var", "adiantamento_var", "ano_var", "mes_var", "dias_mes_var",
      "insal_var", "valor_vr_var", "dias_vr_var" }

\* the conversions of calcular, each a value or the exception it raised
conversoes(f) ==
    [salario_bruto |-> limpar_formato(f.salario_bruto_var),
     adiantamento_salario |-> limpar_formato(f.adiantamento_var),
     ano |-> int_ou_zero(f.ano_var),
     mes |-> int_ou_zero(f.mes_var),
     dias_trab_mes |-> int_ou_zero(f.dias_mes_var),
     insalubridade_percentual |-> limpar_formato(f.insal_var),
     valor_vr |-> limpar_formato(f.valor_vr_var),
     dias_vr |-> int_ou_zero(f.dias_vr_var),
     desconto_vr_percentual |-> limpar_formato(f.desconto_vr_perc_var),
     desconto_vt_percentual |-> limpar_formato(f.desconto_vt_perc_var),
     desconto_saude_percentual |-> limpar_formato(f.desconto_saude_perc_var),
     desconto_odonto_percentual |-> limpar_formato(f.desconto_odonto_perc_var)]

\* one of the conversions raised
Levantou(a) == \E campo \in DOMAIN a : a[campo] = ValueError

\* the converted values, as the arguments of the calls that follow
convertidos(a) ==
    [a EXCEPT !.ano = a.ano.valor, !.mes = a.mes.valor,
              !.dias_trab_mes = a.dias_trab_mes.valor, !.dias_vr = a.dias_vr.valor]

\* calcular returns under an error box: the form is as it was, and
\* get_resultados_string was not called
Recusa(f, msg) ==
    [form |-> f, mensagem |-> msg, chamada |-> "nenhuma", entrada |-> Padrao,
     retorno |-> Zero]

\* the end of calcular: what get_resultados_string returned replaces the
\* content of the result area, which is disabled again; an exception of the
\* call reaches the except clause
calcular_exibe(f, e, resultados) ==
    IF resultados = ZeroDivisionError
    THEN Recusa(f, "Ocorreu um erro: ZeroDivisionError")
    ELSE [form |-> [f EXCEPT !.result_text =
                                 [texto |-> resultados.linhas, state |-> "disabled"]],
          mensagem |-> "", chamada |-> "get_resultados_string", entrada |-> e,
          retorno |-> resultados]

\* calcular without the check of the year
calcular_valida_sem_ano(f, e) ==
    IF verificar_dias_validos(e.ano, e.mes, e.dias_trab_mes) = IllegalMonthError
    THEN Recusa(f, "Ocorreu um erro: IllegalMonthError")
    ELSE IF verificar_dias_validos(e.ano, e.mes, e.dias_trab_mes) = Devolve(FALSE)
    THEN Recusa(f, "Número de dias inválido para o mês/ano.")
    ELSE calcular_exibe(f, e, Folha(e))

\* the logical validations of calcular, on the converted values e: the year,
\* then the days of the month, then the call of get_resultados_string
calcular_valida(f, e) ==
    IF e.ano < 1900 \/ e.ano > 2100
    THEN Recusa(f, "Ano inválido. Por favor, insira um ano entre 1900 e 2100.")
    ELSE IF verificar_dias_validos(e.ano, e.mes, e.dias_trab_mes) = IllegalMonthError
    THEN Recusa(f, "Ocorreu um erro: IllegalMonthError")
    ELSE IF verificar_dias_validos(e.ano, e.mes, e.dias_trab_mes) = Devolve(FALSE)
    THEN Recusa(f, "Número de dias inválido para o mês/ano.")
    ELSE calcular_exibe(f, e, Folha(e))

\* the try block of calcular, on the conversions a
calcular_try(f, a) ==
    IF Levantou(a) THEN Recusa(f, "Ocorreu um erro: ValueError")
    ELSE calcular_valida(f, convertidos(a))

\* calcular: the handler of the button Calcular
calcular(f) ==
    IF \A var \in required_vars : f[var] = << >>
    THEN Recusa(f, "Por favor, preencha os campos.")
    ELSE calcular_try(f, conversoes(f))

\* the first part of limpar_campos: the eight input variables are emptied
limpa_entradas(f) ==
    [f EXCEPT !.salario_bruto_var = << >>, !.adiantamento_var = << >>,
              !.ano_var = << >>, !.mes_var = << >>, !.dias_mes_var = << >>,
              !.insal_var = << >>, !.valor_vr_var = << >>, !.dias_vr_var = << >>]

RECURSIVE limpa_descontos(_, _)
\* the second part: each selector, in order up to the k-th, is set to "N",
\* which runs its trace, and its percentage variable is emptied
limpa_descontos(f, k) ==
    IF k = 0 THEN f
    ELSE [define_seletor(limpa_descontos(f, k - 1), k, "N")
              EXCEPT ![Seletores[k].perc] = << >>]

\* the third part: the result area is emptied and disabled again
limpa_resultado(f) == [f EXCEPT !.result_text = [texto |-> << >>, state |-> "disabled"]]

\* limpar_campos without the emptying of the result area
limpar_campos_sem_resultado(f) ==
    toggle_odonto(toggle_saude(toggle_vt(toggle_vr(
        limpa_descontos(limpa_entradas(f), Len(Seletores))))))

\* limpar_campos: the handler of the button Limpar Campos; it ends with the
\* four toggles
limpar_campos(f) ==
    toggle_odonto(toggle_saude(toggle_vt(toggle_vr(
        limpa_resultado(limpa_descontos(limpa_entradas(f), Len(Seletores)))))))

(***************************************************************************)
(* The form as a state machine: one step per event the window handles      *)
(***************************************************************************)
\* the number of events a run of the form handles
MaxEventos == 5

\* the entries without validation, the monetary entries (validate_digits on
\* each key, on_key_release_monetary after it) and the percentage entries
\* (format_money_input on each key, validate_percent when focus leaves)
CamposLivres == { "ano_var", "mes_var", "dias_mes_var", "dias_vr_var" }

CamposMonetarios == { "salario_bruto_var", "valor_vr_var" }

CamposPercentuais ==
    { "adiantamento_var", "insal_var" } \cup { Seletores[k].perc : k \in 1..Len(Seletores) }

\* the entry of the variable var is on the grid: the percentage entries of
\* the discounts are on it only while their toggle left them there
NaGrade(f, var) ==
    \A k \in 1..Len(Seletores) : Seletores[k].perc = var => f[Seletores[k].ent]

\* the contents the user gives an entry, replacing what it holds
Textos(var) ==
    CASE var = "ano_var" ->
             { << >>, << "2", "0", "2", "4" >>, << "2", "1", "0", "1" >>, << "x" >> }
      [] var = "mes_var" -> { << >>, << "2" >>, << "1", "3" >> }
      [] var = "dias_mes_var" -> { << >>, << "3", "0" >> }
      [] var = "dias_vr_var" -> { << >>, << "2", "2" >> }
      [] var = "salario_bruto_var" -> { << >>, << "3", "0", "0", "0", "0", "0" >> }
      [] var = "valor_vr_var" -> { << >>, << "2", "0", "0", "0" >> }
      [] var = "adiantamento_var" -> { << >>, << "1", "5", "0" >> }
      [] var = "insal_var" -> { << >>, << "2", "0" >> }
      [] OTHER -> { << >>, << "6" >> }

InitFormulario ==
    /\ localidade = "pt_BR.UTF-8"
    /\ entrada = Padrao
    /\ chamada = "nenhuma"
    /\ retorno = Zero
    /\ FormularioParado

\* the window handled one more event: handler nome ran and left the outcome o
Trata(nome, o) ==
    /\ eventos < MaxEventos
    /\ eventos' = eventos + 1
    /\ evento' = nome
    /\ form' = o.form
    /\ mensagem' = o.mensagem
    /\ chamada' = o.chamada
    /\ entrada' = o.entrada
    /\ retorno' = o.retorno
    /\ UNCHANGED localidade

\* the outcome of a handler that calls none of the calculators
SemChamada(o) ==
    [form |-> o.form, mensagem |-> o.mensagem, chamada |-> "nenhuma", entrada |-> Padrao,
     retorno |-> Zero]

\* the user replaces the content of an entry without validation
DigitaLivre(var, texto) ==
    /\ form[var] /= texto
    /\ Trata("digita", SemChamada(Fica([form EXCEPT ![var] = texto], "")))

\* the user replaces the content of a monetary entry: validate_digits accepts
\* the new content, and the key release formats it
DigitaMonetario(var, texto) ==
    /\ form[var] /= texto
    /\ validate_digits(texto)
    /\ Trata("digita",
             SemChamada(Fica(on_key_release_monetary([form EXCEPT ![var] = texto], var), "")))

\* the user replaces the content of a percentage entry that is on the grid:
\* format_money_input accepts the edit
DigitaPercentual(var, texto) ==
    /\ form[var] /= texto
    /\ NaGrade(form, var)
    /\ format_money_input(form[var])
    /\ Trata("digita", SemChamada(Fica([form EXCEPT ![var] = texto], "")))

\* focus leaves a percentage entry that is on the grid
SaiDoCampo(var) ==
    /\ NaGrade(form, var)
    /\ form[var] /= << >>
    /\ Trata("validate_percent", SemChamada(validate_percent(form, var)))

\* the user picks S or N in the selector of discount k
Seleciona(k, valor) ==
    /\ form[Seletores[k].tem] /= valor
    /\ Trata("toggle", SemChamada(Fica(define_seletor(form, k, valor), "")))

\* the user presses Calcular
Calcular == Trata("calcular", calcular(form))

\* the user presses Limpar Campos
LimparCampos == Trata("limpar_campos", SemChamada(Fica(limpar_campos(form), "")))

NextFormulario ==
    \/ \E var \in CamposLivres : \E texto \in Textos(var) : DigitaLivre(var, texto)
    \/ \E var \in CamposMonetarios : \E texto \in Textos(var) : DigitaMonetario(var, texto)
    \/ \E var \in CamposPercentuais : \E texto \in Textos(var) : DigitaPercentual(var, texto)
    \/ \E var \in CamposPercentuais : SaiDoCampo(var)
    \/ \E k \in 1..Len(Seletores) : \E valor \in { "S", "N" } : Seleciona(k, valor)
    \/ Calcular
    \/ LimparCampos

SpecFormulario == InitFormulario /\ [][NextFormulario]_vars

(***************************************************************************)
(* Properties of calcular_inss                                             *)
(***************************************************************************)
FMin(a, b) == IF FLe(a, b) THEN a ELSE b

\* the lower bound of bracket i: the upper limit of the bracket before it
LimiteInferior(i) == IF i = 1 THEN Zero ELSE INSS_LIMITS[i - 1]

RECURSIVE SomaMarginal(_, _)
\* the sum, over the brackets 1..n whose lower bound is below g, of
\* rate_i x (min(g, upper_i) - upper_(i-1)), added in bracket order
SomaMarginal(g, n) ==
    IF n = 0 THEN Zero
    ELSE IF FLt(LimiteInferior(n), g)
         THEN FAdd(SomaMarginal(g, n - 1),
                   FMul(INSS_RATES[n], FSub(FMin(g, INSS_LIMITS[n]), LimiteInferior(n))))
         ELSE SomaMarginal(g, n - 1)

\* C1: calcular_inss(g) is 0 for g <= 0 and otherwise the marginal bracket
\* sum over the four brackets; a salary equal to a bracket's upper limit is
\* charged within that bracket, and calcular_inss(1518.00) = 113.85
C1_InssSomaMarginal ==
    chamada = "calcular_inss" =>
        LET g == entrada.salario_bruto
        IN  /\ FLe(g, Zero) => retorno = Zero
            /\ FGt(g, Zero) => retorno = SomaMarginal(g, Len(INSS_LIMITS))
            /\ \A i \in 1..Len(INSS_LIMITS) :
                   g = INSS_LIMITS[i] =>
                       retorno = FAdd(calcular_inss(LimiteInferior(i)),
                                      FMul(FSub(g, LimiteInferior(i)), INSS_RATES[i]))
            /\ g = Reais(151800) => retorno = Reais(11385)

\* C1 witness: the call with the salary at the first bracket's limit returned 113.85
C1_Witness ==
    /\ chamada = "calcular_inss"
    /\ entrada.salario_bruto = Reais(151800)
    /\ retorno = Reais(11385)

\* the bracket a positive salary falls in: the first whose upper limit is
\* not exceeded, 0 above the last limit
Faixa(g) ==
    IF \E i \in 1..Len(INSS_LIMITS) : FLe(g, INSS_LIMITS[i])
    THEN CHOOSE i \in 1..Len(INSS_LIMITS) :
             /\ FLe(g, INSS_LIMITS[i])
             /\ \A j \in 1..(i - 1) : FGt(g, INSS_LIMITS[j])
    ELSE 0

\* the salaries of the domain, as floats, and calcular_inss on each of them
SalariosFloat == { Reais(c) : c \in Salarios }
InssDe == [h \in SalariosFloat |-> calcular_inss(h)]

\* the salaries of the domain that are positive, not above g and in g's bracket
NaMesmaFaixa(g) ==
    { h \in SalariosFloat : FGt(h, Zero) /\ FLe(h, g) /\ Faixa(h) = Faixa(g) }

\* the rounding allowed on a difference of two results: 2^-40, about 1e-12
ToleranciaInss == FScale(FromInt(1), 0 - 40)

\* C2 as stated: monotone, and inside a bracket an increase of d raises the
\* result by exactly d times the bracket's rate
C2_InssInclinacaoExata ==
    (chamada = "calcular_inss" /\ Faixa(entrada.salario_bruto) > 0) =>
        \A h \in NaMesmaFaixa(entrada.salario_bruto) :
            FSub(retorno, InssDe[h])
                = FMul(FSub(entrada.salario_bruto, h),
                       INSS_RATES[Faixa(entrada.salario_bruto)])

\* C2 amended: calcular_inss never decreases when the salary increases, and
\* inside a bracket an increase of d raises the result by d times the
\* bracket's rate up to floating-point rounding (less than 2^-40)
C2_InssMonotona ==
    chamada = "calcular_inss" =>
        LET g == entrada.salario_bruto
        IN  /\ \A h \in SalariosFloat : FLe(h, g) => FLe(InssDe[h], retorno)
            /\ Faixa(g) > 0 =>
                   \A h \in NaMesmaFaixa(g) :
                       FLe(FAbs(FSub(FSub(retorno, InssDe[h]),
                                     FMul(FSub(g, h), INSS_RATES[Faixa(g)]))),
                           ToleranciaInss)

\* C2 witness: a call inside the third bracket, above another salary of the
\* same bracket, with a strictly larger result
C2_Witness ==
    /\ chamada = "calcular_inss"
    /\ entrada.salario_bruto = Reais(300001)
    /\ Reais(300000) \in NaMesmaFaixa(entrada.salario_bruto)
    /\ FGt(retorno, InssDe[Reais(300000)])

\* C3: above the last limit the result is the one of the last limit itself
\* (951.6344): nothing is charged on the part above 8157.41
C3_InssTeto ==
    (chamada = "calcular_inss"
        /\ FGt(entrada.salario_bruto, INSS_LIMITS[Len(INSS_LIMITS)])) =>
        /\ retorno = calcular_inss(INSS_LIMITS[Len(INSS_LIMITS)])
        /\ retorno = Dec(9516344, 4)

\* C3 witness: a call with a salary above the ceiling returned the ceiling's value
C3_Witness ==
    /\ chamada = "calcular_inss"
    /\ entrada.salario_bruto = Reais(2000000)
    /\ retorno = Dec(9516344, 4)

(***************************************************************************)
(* Properties of the aggregator's discounts                                *)
(***************************************************************************)
\* C4 as stated: with a gross salary that is not positive, INSS and each of
\* the four discounts are 0, and so is the total of the discounts
C4_BrutoNaoPositivoTudoZero ==
    (chamada = "get_resultados_string" /\ FLe(entrada.salario_bruto, Zero)) =>
        /\ retorno.desconto_inss = Zero
        /\ retorno.desconto_vr = Zero
        /\ retorno.desconto_vt = Zero
        /\ retorno.desconto_saude = Zero
        /\ retorno.desconto_odonto = Zero
        /\ retorno.total_descontos = Zero

\* C4 amended: with a gross salary that is not positive, INSS and the VT,
\* health and dental discounts are 0 whatever the other inputs; the VR
\* discount does not depend on the gross salary (it is the one of a positive
\* salary with the same VR inputs), and the total of the discounts is the VR
\* discount
C4_BrutoNaoPositivo ==
    (chamada = "get_resultados_string" /\ FLe(entrada.salario_bruto, Zero)) =>
        /\ retorno.desconto_inss = Zero
        /\ retorno.desconto_vt = Zero
        /\ retorno.desconto_saude = Zero
        /\ retorno.desconto_odonto = Zero
        /\ retorno.desconto_vr
               = Folha([entrada EXCEPT !.salario_bruto = Reais(300000)]).desconto_vr
        /\ retorno.total_descontos = retorno.desconto_vr

\* C4 witness: the aggregator returned for a gross salary of 0 with every
\* discount enabled: only the VR discount, 220.00, is charged
C4_Witness ==
    /\ chamada = "get_resultados_string"
    /\ entrada.salario_bruto = Zero
    /\ FGt(entrada.desconto_vt_percentual, Zero)
    /\ FGt(entrada.desconto_saude_percentual, Zero)
    /\ FGt(entrada.desconto_odonto_percentual, Zero)
    /\ retorno.desconto_vt = Zero
    /\ retorno.desconto_vr = FromInt(220)
    /\ retorno.total_descontos = FromInt(220)

\* the relative rounding allowed on the net salary: 2^-48
ToleranciaLiquido == FScale(FromInt(1), 0 - 48)

\* gross - total discounts + insalubridade, as the claim writes the net salary
LiquidoPeloTotal(r, g) == FAdd(FSub(g, r.total_descontos), r.insal_total)

\* the total is INSS + VR + VT + health + dental, added in this order
TotalEhSoma(r) ==
    r.total_descontos
        = FAdd(FAdd(FAdd(FAdd(r.desconto_inss, r.desconto_vr), r.desconto_vt),
                    r.desconto_saude), r.desconto_odonto)

\* C5 as stated: the total of the discounts is the sum of the five, and the
\* net salary is gross - total + insalubridade
C5_LiquidoExato ==
    chamada = "get_resultados_string" =>
        /\ TotalEhSoma(retorno)
        /\ retorno.salario_liquido = LiquidoPeloTotal(retorno, entrada.salario_bruto)

\* C5 amended: the total of the discounts is the sum of the five; the net
\* salary is the gross salary minus each of the five in turn plus the
\* insalubridade, which is gross - total + insalubridade up to floating-point
\* rounding (2^-48 of |gross| + total + insalubridade)
C5_TotalELiquido ==
    chamada = "get_resultados_string" =>
        /\ TotalEhSoma(retorno)
        /\ retorno.salario_liquido
               = FAdd(FSub(FSub(FSub(FSub(FSub(entrada.salario_bruto,
                                               retorno.desconto_inss),
                                          retorno.desconto_vr),
                                     retorno.desconto_vt),
                                retorno.desconto_saude),
                           retorno.desconto_odonto),
                      retorno.insal_total)
        /\ FLe(FAbs(FSub(retorno.salario_liquido,
                         LiquidoPeloTotal(retorno, entrada.salario_bruto))),
               FMul(ToleranciaLiquido,
                    FAdd(FAdd(FAbs(entrada.salario_bruto), retorno.total_descontos),
                         retorno.insal_total)))

\* C5 witness: the aggregator returned with the five discounts and the
\* insalubridade all positive
C5_Witness ==
    /\ chamada = "get_resultados_string"
    /\ FGt(retorno.desconto_inss, Zero)
    /\ FGt(retorno.desconto_vr, Zero)
    /\ FGt(retorno.desconto_vt, Zero)
    /\ FGt(retorno.desconto_saude, Zero)
    /\ FGt(retorno.desconto_odonto, Zero)
    /\ FGt(retorno.insal_total, Zero)
    /\ FLt(retorno.salario_liquido, entrada.salario_bruto)

\* the four discount categories: the name on the line, the input that holds
\* the percentage, the result that holds the discount
Categorias ==
    << [nome |-> "VR", percentual |-> "desconto_vr_percentual", desconto |-> "desconto_vr"],
       [nome |-> "VT", percentual |-> "desconto_vt_percentual", desconto |-> "desconto_vt"],
       [nome |-> "Plano de Saúde", percentual |-> "desconto_saude_percentual",
        desconto |-> "desconto_saude"],
       [nome |-> "Plano Odontológico", percentual |-> "desconto_odonto_percentual",
        desconto |-> "desconto_odonto"] >>

\* the lines of the result r that belong to category k
LinhasDaCategoria(r, k) ==
    { i \in 1..Len(r.linhas) :
        r.linhas[i].rotulo \in { "Valor Desconto " \o Categorias[k].nome,
                                 "Sem desconto de " \o Categorias[k].nome } }

\* the lines of category k in r, in order
TextoDaCategoria(r, k) == [i \in LinhasDaCategoria(r, k) |-> r.linhas[i]]

\* the percentages a discount is changed to
PercentuaisAlternativos == { Reais(0 - 500), Zero, Reais(750) }

\* r and r2 agree on the discount and the lines of every category but k
OutrasIguais(r, r2, k) ==
    \A j \in (1..Len(Categorias)) \ { k } :
        /\ r2[Categorias[j].desconto] = r[Categorias[j].desconto]
        /\ TextoDaCategoria(r2, j) = TextoDaCategoria(r, j)

\* C6: changing the percentage of one discount, also to 0, leaves the
\* value and the line of each of the other three discounts as they were
C6_DescontosIndependentes ==
    chamada = "get_resultados_string" =>
        \A k \in 1..Len(Categorias) : \A q \in PercentuaisAlternativos :
            OutrasIguais(retorno, Folha([entrada EXCEPT ![Categorias[k].percentual] = q]), k)

\* C6 witness: the aggregator returned with the four discounts charged, and
\* disabling the VT discount changes the VT discount and its line
C6_Witness ==
    /\ chamada = "get_resultados_string"
    /\ \A k \in 1..Len(Categorias) : FGt(retorno[Categorias[k].desconto], Zero)
    /\ Folha([entrada EXCEPT !.desconto_vt_percentual = Zero]).desconto_vt
           /= retorno.desconto_vt
    /\ TextoDaCategoria(Folha([entrada EXCEPT !.desconto_vt_percentual = Zero]), 2)
           /= TextoDaCategoria(retorno, 2)

(***************************************************************************)
(* Properties of calcular_insalubridade                                    *)
(***************************************************************************)
\* the relative rounding allowed on the sum of the two parts: 2^-50
ToleranciaParcelas == FScale(FromInt(1), 0 - 50)

\* total = 1518.00 x p/100, part40 = 0.40 x total, part60 = 0.60 x total
ParcelasCertas(p, r) ==
    /\ r[1] = FMul(Reais(151800), FDiv(p, FromInt(100)))
    /\ r[2] = FMul(Dec(4, 1), r[1])
    /\ r[3] = FMul(Dec(6, 1), r[1])

\* C7 as stated: (0, 0, 0) for p <= 0; for p > 0 the total and its two
\* parts, and part40 + part60 = total
C7_ParcelasSomamTotal ==
    chamada = "calcular_insalubridade" =>
        /\ FLe(entrada.insalubridade_percentual, Zero) => retorno = << Zero, Zero, Zero >>
        /\ FGt(entrada.insalubridade_percentual, Zero) =>
               /\ ParcelasCertas(entrada.insalubridade_percentual, retorno)
               /\ FAdd(retorno[2], retorno[3]) = retorno[1]

\* C7 amended: (0, 0, 0) for p <= 0; for p > 0 the total and its two parts,
\* and part40 + part60 is the total up to floating-point rounding (2^-50 of
\* the total)
C7_Insalubridade ==
    chamada = "calcular_insalubridade" =>
        /\ FLe(entrada.insalubridade_percentual, Zero) => retorno = << Zero, Zero, Zero >>
        /\ FGt(entrada.insalubridade_percentual, Zero) =>
               /\ ParcelasCertas(entrada.insalubridade_percentual, retorno)
               /\ FLe(FAbs(FSub(FAdd(retorno[2], retorno[3]), retorno[1])),
                      FMul(ToleranciaParcelas, retorno[1]))

\* C7 witness: the call with 29% returned a total of 440.22 (to the cent)
\* whose two parts do not add up to it
C7_Witness ==
    /\ chamada = "calcular_insalubridade"
    /\ entrada.insalubridade_percentual = FromInt(29)
    /\ Centavos(retorno[1]) = 44022
    /\ FAdd(retorno[2], retorno[3]) /= retorno[1]

(***************************************************************************)
(* Properties of calcular_vr and calcular_vt                               *)
(***************************************************************************)
\* C8: calcular_vr is (unit value x paid days) x pct/100 when the three are
\* strictly positive and 0 as soon as one of them is zero or negative;
\* calcular_vr(20, 22, 50) = 220.0
C8_ValeRefeicao ==
    chamada = "calcular_vr" =>
        /\ (/\ FGt(entrada.valor_vr, Zero)
            /\ entrada.dias_vr > 0
            /\ FGt(entrada.desconto_vr_percentual, Zero)) =>
               retorno = FMul(FMul(entrada.valor_vr, FromInt(entrada.dias_vr)),
                              FDiv(entrada.desconto_vr_percentual, FromInt(100)))
        /\ (\/ FLe(entrada.valor_vr, Zero)
            \/ entrada.dias_vr <= 0
            \/ FLe(entrada.desconto_vr_percentual, Zero)) => retorno = Zero
        /\ (/\ entrada.valor_vr = FromInt(20)
            /\ entrada.dias_vr = 22
            /\ entrada.desconto_vr_percentual = FromInt(50)) => retorno = FromInt(220)

\* C8 witness: calcular_vr(20, 22, 50) returned 220.0
C8_Witness ==
    /\ chamada = "calcular_vr"
    /\ entrada.valor_vr = FromInt(20)
    /\ entrada.dias_vr = 22
    /\ entrada.desconto_vr_percentual = FromInt(50)
    /\ retorno = FromInt(220)

\* base x pct/100 when both are positive, 0 otherwise
DescontoProporcional(base, pct) ==
    IF FGt(pct, Zero) /\ FGt(base, Zero)
    THEN FMul(base, FDiv(pct, FromInt(100)))
    ELSE Zero

\* C9: calcular_vt(base, pct) is base x pct/100 when both are positive and
\* 0 otherwise (calcular_vt(1000, 10) = 100.0), and the aggregator's VT,
\* health and dental discounts are this function of the gross salary and of
\* the category's percentage
C9_DescontoProporcional ==
    /\ chamada = "calcular_vt" =>
           /\ retorno = DescontoProporcional(entrada.salario_bruto,
                                             entrada.desconto_vt_percentual)
           /\ (/\ entrada.salario_bruto = FromInt(1000)
               /\ entrada.desconto_vt_percentual = FromInt(10)) => retorno = FromInt(100)
    /\ chamada = "get_resultados_string" =>
           /\ retorno.desconto_vt
                  = DescontoProporcional(entrada.salario_bruto, entrada.desconto_vt_percentual)
           /\ retorno.desconto_saude
                  = DescontoProporcional(entrada.salario_bruto,
                                         entrada.desconto_saude_percentual)
           /\ retorno.desconto_odonto
                  = DescontoProporcional(entrada.salario_bruto,
                                         entrada.desconto_odonto_percentual)

\* C9 witness: the aggregator returned for a gross salary of 3000.00 with
\* VT 6%, health 10% and dental 2.5%: 180.00, 300.00 and 75.00
C9_Witness ==
    /\ chamada = "get_resultados_string"
    /\ entrada.salario_bruto = FromInt(3000)
    /\ entrada.desconto_vt_percentual = FromInt(6)
    /\ entrada.desconto_saude_percentual = FromInt(10)
    /\ entrada.desconto_odonto_percentual = Reais(250)
    /\ retorno.desconto_vt = FromInt(180)
    /\ retorno.desconto_saude = FromInt(300)
    /\ retorno.desconto_odonto = FromInt(75)

(***************************************************************************)
(* Properties of the breakdown                                             *)
(***************************************************************************)
\* the lines of category k in r are one notice
UmAviso(r, k) ==
    \E i \in 1..Len(r.linhas) :
        /\ LinhasDaCategoria(r, k) = { i }
        /\ r.linhas[i].tipo = "aviso"
        /\ r.linhas[i].rotulo = "Sem desconto de " \o Categorias[k].nome

\* the lines of category k in r are one line with the percentage pct and the
\* discount of the category, formatted
UmValor(r, k, pct) ==
    \E i \in 1..Len(r.linhas) :
        /\ LinhasDaCategoria(r, k) = { i }
        /\ r.linhas[i].tipo = "valor"
        /\ r.linhas[i].rotulo = "Valor Desconto " \o Categorias[k].nome
        /\ r.linhas[i].perc = pct
        /\ r.linhas[i].valor = formatar_valor(r[Categorias[k].desconto])

\* C10 as stated: each category has exactly one line, the notice when its
\* percentage is 0 and the numeric line otherwise
C10_AvisoSoComZero ==
    chamada = "get_resultados_string" =>
        \A k \in 1..Len(Categorias) :
            IF FEq(entrada[Categorias[k].percentual], Zero)
            THEN UmAviso(retorno, k)
            ELSE UmValor(retorno, k, entrada[Categorias[k].percentual])

\* C10 amended: each category has exactly one line, the notice when its
\* percentage is 0 or negative and the numeric line with the computed
\* discount when it is positive
C10_UmaLinhaPorCategoria ==
    chamada = "get_resultados_string" =>
        \A k \in 1..Len(Categorias) :
            /\ Cardinality(LinhasDaCategoria(retorno, k)) = 1
            /\ IF FLe(entrada[Categorias[k].percentual], Zero)
               THEN UmAviso(retorno, k)
               ELSE UmValor(retorno, k, entrada[Categorias[k].percentual])

\* C10 witness: the aggregator returned with VT at 6% and the health plan
\* at 0%: a numeric line of 180,00 for VT and a notice for the health plan
C10_Witness ==
    /\ chamada = "get_resultados_string"
    /\ entrada.salario_bruto = FromInt(3000)
    /\ entrada.desconto_vt_percentual = FromInt(6)
    /\ entrada.desconto_saude_percentual = Zero
    /\ UmValor(retorno, 2, FromInt(6))
    /\ Troca(Troca(retorno.linhas[10].valor, ".", << >>), ",", << >>) = << "1", "8", "0", "0", "0" >>
    /\ UmAviso(retorno, 3)

\* C11: the INSS line reports the rate inss / gross x 100, and 0 when the
\* gross salary is 0; the aggregator never raises a division by zero
C11_PercentualInss ==
    chamada = "get_resultados_string" =>
        /\ retorno /= ZeroDivisionError
        /\ FGt(entrada.salario_bruto, Zero) =>
               retorno.percentual_inss
                   = FMul(FDiv(retorno.desconto_inss, entrada.salario_bruto), FromInt(100))
        /\ FEq(entrada.salario_bruto, Zero) => retorno.percentual_inss = Zero
        /\ FLt(entrada.salario_bruto, Zero) =>
               FEq(retorno.percentual_inss,
                   FMul(FDiv(retorno.desconto_inss, entrada.salario_bruto), FromInt(100)))
        /\ \E i \in 1..Len(retorno.linhas) :
               /\ \A j \in 1..Len(retorno.linhas) :
                      retorno.linhas[j].rotulo = "Valor Desconto INSS" <=> j = i
               /\ retorno.linhas[i].perc = retorno.percentual_inss
               /\ retorno.linhas[i].valor = formatar_valor(retorno.desconto_inss)

\* C11 witness: the aggregator returned for a gross salary of 0 with the
\* rate 0 on its INSS line
C11_Witness ==
    /\ chamada = "get_resultados_string"
    /\ entrada.salario_bruto = Zero
    /\ retorno /= ZeroDivisionError
    /\ retorno.percentual_inss = Zero
    /\ retorno.linhas[8].rotulo = "Valor Desconto INSS"
    /\ retorno.linhas[8].perc = Zero

(***************************************************************************)
(* Properties of verificar_dias_validos                                    *)
(***************************************************************************)
\* the Gregorian rule: every fourth year, except the centuries that are not
\* a multiple of 400
Bissexto(a) == (a % 4 = 0 /\ a % 100 /= 0) \/ a % 400 = 0

\* the number of days of month m (1..12) of year a
DiasDoMes(a, m) ==
    IF m = 2 THEN (IF Bissexto(a) THEN 29 ELSE 28)
    ELSE IF m \in { 4, 6, 9, 11 } THEN 30
    ELSE 31

\* C12: verificar_dias_validos returns false, without raising, for a month
\* outside 1..12, and otherwise true exactly when 0 <= days <= days of the
\* month in the year; (2024, 2, 29) is true, (2023, 2, 29) and (2025, 13, 1)
\* are false
C12_DiasValidos ==
    chamada = "verificar_dias_validos" =>
        /\ retorno /= IllegalMonthError
        /\ (entrada.mes < 1 \/ entrada.mes > 12) => retorno = Devolve(FALSE)
        /\ (entrada.mes >= 1 /\ entrada.mes <= 12) =>
               retorno = Devolve(/\ 0 <= entrada.dias_trab_mes
                                 /\ entrada.dias_trab_mes
                                        <= DiasDoMes(entrada.ano, entrada.mes))
        /\ (entrada.ano = 2024 /\ entrada.mes = 2 /\ entrada.dias_trab_mes = 29) =>
               retorno = Devolve(TRUE)
        /\ (entrada.ano = 2023 /\ entrada.mes = 2 /\ entrada.dias_trab_mes = 29) =>
               retorno = Devolve(FALSE)
        /\ (entrada.ano = 2025 /\ entrada.mes = 13 /\ entrada.dias_trab_mes = 1) =>
               retorno = Devolve(FALSE)

\* C12 witness: verificar_dias_validos(2024, 2, 29) returned true
C12_Witness ==
    /\ chamada = "verificar_dias_validos"
    /\ entrada.ano = 2024
    /\ entrada.mes = 2
    /\ entrada.dias_trab_mes = 29
    /\ retorno = Devolve(TRUE)

(***************************************************************************)
(* Properties of calcular, the handler of the button                       *)
(***************************************************************************)
\* the text of a money or percentage entry is empty or, with its points
\* removed and its comma turned into a point, writes a number
TextoDeValor(texto) ==
    texto = << >> \/ Converte(Troca(Troca(texto, ".", << >>), ",", << "." >>))

\* the text of a whole-number entry is empty or writes an integer
TextoDeInteiro(texto) ==
    \/ texto = << >>
    \/ SoDigitos(texto)
    \/ Len(texto) > 1 /\ Head(texto) = "-" /\ SoDigitos(Tail(texto))

\* the whole number a valid whole-number entry writes, 0 when it is empty
Inteiro(texto) ==
    IF texto = << >> THEN 0
    ELSE IF Head(texto) = "-" THEN 0 - Numero(Tail(texto), 0)
    ELSE Numero(texto, 0)

\* every entry of the form f parses
TudoConverte(f) ==
    /\ \A var \in CamposMonetarios \cup CamposPercentuais : TextoDeValor(f[var])
    /\ \A var \in CamposLivres : TextoDeInteiro(f[var])

\* every entry of f parses, the year is within 1900..2100, the month within
\* 1..12 and the day count within 0..days of that month
FormularioValido(f) ==
    /\ TudoConverte(f)
    /\ Inteiro(f.ano_var) >= 1900
    /\ Inteiro(f.ano_var) <= 2100
    /\ Inteiro(f.mes_var) >= 1
    /\ Inteiro(f.mes_var) <= 12
    /\ Inteiro(f.dias_mes_var) >= 0
    /\ Inteiro(f.dias_mes_var) <= DiasDoMes(Inteiro(f.ano_var), Inteiro(f.mes_var))

\* C13: when Calcular is pressed, the result area receives the breakdown
\* only if every entry parses, the year is within 1900..2100 and the day
\* count is valid for the month; otherwise get_resultados_string is not
\* called, an error box is shown and the result area keeps the content it had
C13_CalcularSoComEntradasValidas ==
    [][evento' = "calcular" =>
           IF FormularioValido(form)
           THEN /\ chamada' = "get_resultados_string"
                /\ form'.result_text.texto = retorno'.linhas
           ELSE /\ chamada' = "nenhuma"
                /\ mensagem' /= ""
                /\ form'.result_text = form.result_text]_vars

\* C13 witness: Calcular was pressed with 30 days for February 2024 while
\* the result area held an earlier breakdown: the error box of the day count
\* is up, get_resultados_string was not called and the breakdown is still there
C13_Witness ==
    /\ evento = "calcular"
    /\ chamada = "nenhuma"
    /\ mensagem = "Número de dias inválido para o mês/ano."
    /\ form.ano_var = << "2", "0", "2", "4" >>
    /\ form.mes_var = << "2" >>
    /\ form.dias_mes_var = << "3", "0" >>
    /\ form.result_text.texto /= << >>

(***************************************************************************)
(* Properties of the discount selectors and of Limpar Campos               *)
(***************************************************************************)
\* C15: in every state the form reaches, a selector on "N" has an empty
\* percentage; and a breakdown calculated while a selector is on "N" has the
\* notice "Sem desconto" for that category and a discount of 0 for it
C15_SeletorNSemPercentual ==
    /\ \A k \in 1..Len(Seletores) :
           form[Seletores[k].tem] = "N" => form[Seletores[k].perc] = << >>
    /\ (evento = "calcular" /\ chamada = "get_resultados_string") =>
           /\ form.result_text.texto = retorno.linhas
           /\ \A k \in 1..Len(Seletores) :
                  form[Seletores[k].tem] = "N" =>
                      /\ UmAviso(retorno, k)
                      /\ retorno[Categorias[k].desconto] = Zero

\* C15 witness: a breakdown was calculated with the VR selector on "S" and
\* 6% typed, and the VT selector on "N": the result area has a numeric line
\* for VR and the notice for VT
C15_Witness ==
    /\ evento = "calcular"
    /\ chamada = "get_resultados_string"
    /\ form.tem_desconto_vr_var = "S"
    /\ form.desconto_vr_perc_var = << "6" >>
    /\ form.tem_desconto_vt_var = "N"
    /\ form.result_text.texto = retorno.linhas
    /\ UmValor(retorno, 1, Reais(600))
    /\ UmAviso(retorno, 2)

\* the eight input entries and the four percentages of f are empty, the four
\* selectors are on "N" with their percentage entries off the grid, and the
\* result area is empty and disabled
Limpo(f) ==
    /\ \A var \in required_vars : f[var] = << >>
    /\ \A k \in 1..Len(Seletores) :
           /\ f[Seletores[k].perc] = << >>
           /\ f[Seletores[k].tem] = "N"
           /\ ~f[Seletores[k].ent]
    /\ f.result_text = [texto |-> << >>, state |-> "disabled"]

\* C16: from any state of the form, Limpar Campos leaves the form as it was
\* built: inputs and percentages empty, selectors on "N" with their
\* percentage entries hidden, result area empty and read-only
C16_LimparRestauraInicio ==
    [][evento' = "limpar_campos" => Limpo(form') /\ form' = FormInicial]_vars

\* C16 witness: Limpar Campos ran as the fourth event or later and left the
\* form as built
C16_Witness ==
    /\ evento = "limpar_campos"
    /\ eventos >= 4
    /\ Limpo(form)
    /\ form = FormInicial

(***************************************************************************)
(* Properties of formatar_valor and limpar_formato                         *)
(***************************************************************************)
\* C14: formatting an amount with two decimal digits and parsing the text
\* gives the amount back, whichever locale the process runs in
C14_IdaEVolta ==
    chamada = "limpar_formato" => retorno = entrada.salario_bruto

(***************************************************************************)
(* Properties of the advance on the salary                                 *)
(***************************************************************************)
\* the lines that print the advance on the salary
LinhasDoAdiantamento ==
    { "Valor Adiantamento Salário",
      "Valor Adiantamento Insalubridade (40%) + Valor Adiantamento Salário" }

\* the results that are not the advance
ValoresForaDoAdiantamento ==
    { "desconto_inss", "insal_total", "parcela_40", "parcela_60", "desconto_vr",
      "desconto_vt", "desconto_saude", "desconto_odonto", "salario_liquido",
      "percentual_inss", "total_descontos" }

\* the advance percentages the request is changed to
AdiantamentosAlternativos == { Zero, Reais(1000), Reais(4000) }

\* r and r2 agree on every value but the advance and on every line but the
\* advance's
MesmoForaDoAdiantamento(r, r2) ==
    /\ \A v \in ValoresForaDoAdiantamento : r2[v] = r[v]
    /\ Len(r2.linhas) = Len(r.linhas)
    /\ \A i \in 1..Len(r.linhas) :
           r.linhas[i].rotulo \notin LinhasDoAdiantamento => r2.linhas[i] = r.linhas[i]

\* C17: changing the advance percentage leaves INSS, every discount, the
\* total of the discounts, the total proceeds and the net salary unchanged,
\* and every line but the advance's
C17_AdiantamentoIsolado ==
    chamada = "get_resultados_string" =>
        \A q \in AdiantamentosAlternativos :
            MesmoForaDoAdiantamento(retorno, Folha([entrada EXCEPT !.adiantamento_salario = q]))

\* C17 witness: the aggregator returned with an advance of 40%, which is
\* positive, and without the advance only the advance changes
C17_Witness ==
    /\ chamada = "get_resultados_string"
    /\ entrada.adiantamento_salario = FromInt(40)
    /\ FGt(retorno.adiantamento_40, Zero)
    /\ Folha([entrada EXCEPT !.adiantamento_salario = Zero]).adiantamento_40 = Zero
    /\ Folha([entrada EXCEPT !.adiantamento_salario = Zero]).salario_liquido
           = retorno.salario_liquido

====
